---------------------------- MODULE Spec2Model ----------------------------
(***************************************************************************)
(* The per-call session relay of marta-voz-24h: one inbound Twilio media   *)
(* socket (twilioWs), one outbound OpenAI realtime socket (openaiWs) and   *)
(* the finalization that runs when the call stops.  The repository holds   *)
(* nine iterations of the same wss.on("connection") closure; the variable  *)
(* variant names the one a behaviour runs.                                 *)
(*                                                                         *)
(*   p000   src/unnamed/part_000            readiness-gated greeting       *)
(*   p001   src/unnamed/part_001            raw relay                      *)
(*   p002a  src/unnamed/part_002:199-364    greeting at open, buffering    *)
(*   p002b  src/unnamed/part_002:646-868    trySendGreeting                *)
(*   p003   src/unnamed/part_003            greeting at open, dropping     *)
(*   s1     src/server.js:108-292           greeting at open, dropping     *)
(*   s2     src/server.js:462-691           greeting at open, buffering    *)
(*   s3     src/server.js:870-1064          greeting at open, dropping     *)
(*   s4     src/server.js:1203-1316         greeting at open, dropping     *)
(***************************************************************************)
EXTENDS Integers, Sequences, FiniteSets, TLC

\* ------------------------------------------------------------- bounds
MaxStart == 2
MaxMedia == 2
MaxDelta == 2
MaxAck == 1
MaxUtter == 2
MaxStop == 2
\* media events, audio deltas, transcriptions and stop events of one run, together
MaxEvents == 3
MaxBad == 2
MaxErr == 1
MaxPairSteps == 5
MaxOut == 4

\* ------------------------------------------------------------- inputs
Variants == {"p000", "p001", "p002a", "p002b", "p003", "s1", "s2", "s3", "s4"}

\* The relay never looks into an audio payload, so the k-th frame a peer
\* delivers carries payload k: every frame is told from every other.
NoAudio == 0

\* data.start of the k-th start event: either it carries streamSid, callSid
\* and customParameters.From, or it carries none of them
SidOf(k) == CASE k = 1 -> "SS1" [] k = 2 -> "SS2" [] OTHER -> "SS3"

CallOf(k) == CASE k = 1 -> "CA1" [] k = 2 -> "CA2" [] OTHER -> "CA3"

StartEvents(k) ==
  { [streamSid |-> SidOf(k), callSid |-> CallOf(k), from |-> "+34600"],
    [streamSid |-> "", callSid |-> "", from |-> ""] }

\* msg.transcript of a transcription-completed event; " " is whitespace only
Texts == {"fontanero", " "}

\* ------------------------------------------------------------- messages
SessionUpdate == [type |-> "session.update", audio |-> NoAudio]

ResponseCreate == [type |-> "response.create", audio |-> NoAudio]

AudioAppend(p) == [type |-> "input_audio_buffer.append", audio |-> p]

MediaEvent(sid, p) == [event |-> "media", streamSid |-> sid, payload |-> p]

\* part_001 forwards the frame it received, whatever it is
RawToModel(kind, p) == [type |-> kind, audio |-> p]

RawToTwilio(kind, p) == [event |-> kind, streamSid |-> "", payload |-> p]

VARIABLES
  variant,          \* which iteration of the closure runs
  streamSid, callSid, fromNumber, transcript,
  greeted,          \* part_000:99, part_002:659
  sessionReady,     \* part_000:102 sessionReady, part_002:658 openaiReady
  openaiConnected,  \* part_000:103
  pendingAudio,     \* part_002:210 pendingAudio, server.js:473 pendingOutboundAudio
  oaState,          \* openaiWs.readyState
  twState,          \* twilioWs.readyState
  timerArmed,       \* the setTimeout of part_000:203 is pending
  oaMiss,           \* openaiWs.send was called while the socket was not OPEN
  toModel,          \* frames sent on openaiWs, in order
  toTwilio,         \* frames sent on twilioWs, in order
  stops,            \* the running stop handlers, one record per stop event
  extractReqs,      \* the transcripts sent to the extraction endpoint, in order
  smsLog,           \* SMS dispatch attempts, in order
  \* history of what the two peers delivered
  mediaIn,          \* payloads of the media events received, in order
  deltaIn,          \* the audio deltas received, in order: type, payload and
                    \* the streamSid the session held when the delta arrived
  ackSeen,          \* a session.created or session.updated was received
  timerFired,       \* the fallback timer's callback marked the session ready
  nStart, nAck, nUtter, nStop,
  nBad,             \* frames received that are not JSON
  nErr,             \* "error" events received from the model
  uncaught,         \* an exception left a message handler
  pair,             \* two sessions of one process, each as a closure record
  fx                \* one run of the ticket functions: inputs and results

vars == << variant, streamSid, callSid, fromNumber, transcript, greeted,
           sessionReady, openaiConnected, pendingAudio, oaState, twState,
           timerArmed, oaMiss, toModel, toTwilio, stops, extractReqs, smsLog,
           mediaIn, deltaIn, ackSeen, timerFired, nStart, nAck, nUtter,
           nStop, nBad, nErr, uncaught, pair, fx >>

\* The closure's variables and its two sockets as one record, so that a
\* handler is a function from the state before to the state after.
Cur ==
  [ streamSid |-> streamSid, callSid |-> callSid, fromNumber |-> fromNumber,
    transcript |-> transcript, greeted |-> greeted,
    sessionReady |-> sessionReady, openaiConnected |-> openaiConnected,
    pendingAudio |-> pendingAudio, oaState |-> oaState, twState |-> twState,
    timerArmed |-> timerArmed, oaMiss |-> oaMiss, toModel |-> toModel, toTwilio |-> toTwilio,
    stops |-> stops, extractReqs |-> extractReqs, smsLog |-> smsLog ]

Commit(c) ==
  /\ streamSid' = c.streamSid
  /\ callSid' = c.callSid
  /\ fromNumber' = c.fromNumber
  /\ transcript' = c.transcript
  /\ greeted' = c.greeted
  /\ sessionReady' = c.sessionReady
  /\ openaiConnected' = c.openaiConnected
  /\ pendingAudio' = c.pendingAudio
  /\ oaState' = c.oaState
  /\ twState' = c.twState
  /\ timerArmed' = c.timerArmed
  /\ oaMiss' = c.oaMiss
  /\ toModel' = c.toModel
  /\ toTwilio' = c.toTwilio
  /\ stops' = c.stops
  /\ extractReqs' = c.extractReqs
  /\ smsLog' = c.smsLog

\* ------------------------------------------------------------- ws library
\* WebSocket.send transmits only on an OPEN socket; WebSocket.close starts
\* the closing handshake of a socket that is not yet closing.
OaSend(c, m) ==
  IF c.oaState = "OPEN" THEN [c EXCEPT !.toModel = Append(@, m)]
  ELSE [c EXCEPT !.oaMiss = TRUE]

\* part_001:41-43: send only if the socket is open
OaSendIfOpen(c, m) == IF c.oaState = "OPEN" THEN OaSend(c, m) ELSE c

\* a socket that transmits whatever its state
TwSendAfterClose(c, m) == [c EXCEPT !.toTwilio = Append(@, m)]

TwSend(c, m) ==
  IF c.twState = "OPEN" THEN [c EXCEPT !.toTwilio = Append(@, m)] ELSE c

OaClose(c) ==
  IF c.oaState \in {"CONNECTING", "OPEN"}
  THEN [c EXCEPT !.oaState = "CLOSING"] ELSE c

TwClose(c) ==
  IF c.twState = "OPEN" THEN [c EXCEPT !.twState = "CLOSING"] ELSE c

\* ------------------------------------------------------------- greeting gate
\* startGreetingIfReady without its greeted latch
StartGreetingUnlatched(c) ==
  IF c.streamSid = "" THEN c
  ELSE IF c.oaState # "OPEN" THEN c
  ELSE IF ~c.sessionReady THEN c
  ELSE OaSend([c EXCEPT !.greeted = TRUE], ResponseCreate)

\* startGreetingIfReady without its streamSid test
StartGreetingWithoutSid(c) ==
  IF c.greeted THEN c
  ELSE IF c.oaState # "OPEN" THEN c
  ELSE IF ~c.sessionReady THEN c
  ELSE OaSend([c EXCEPT !.greeted = TRUE], ResponseCreate)

\* startGreetingIfReady that latches greeted before it tests the socket and
\* the readiness flag
StartGreetingLatchesEarly(c) ==
  IF c.greeted THEN c
  ELSE IF c.streamSid = "" THEN c
  ELSE IF c.oaState # "OPEN" \/ ~c.sessionReady THEN [c EXCEPT !.greeted = TRUE]
  ELSE OaSend([c EXCEPT !.greeted = TRUE], ResponseCreate)

StartGreetingIfReady(c) ==
  IF c.greeted THEN c
  ELSE IF c.streamSid = "" THEN c
  ELSE IF c.oaState # "OPEN" THEN c
  ELSE IF ~c.sessionReady THEN c
  ELSE OaSend([c EXCEPT !.greeted = TRUE], ResponseCreate)

\* markReady that sets the flag and leaves the greeting to the start event
MarkReadyOnlyFlag(c) ==
  IF c.sessionReady THEN c ELSE [c EXCEPT !.sessionReady = TRUE]

MarkReady(c) ==
  IF c.sessionReady THEN c
  ELSE StartGreetingIfReady([c EXCEPT !.sessionReady = TRUE])

TrySendGreeting(c) ==
  IF c.greeted THEN c
  ELSE IF ~c.sessionReady THEN c
  ELSE IF c.streamSid = "" THEN c
  ELSE IF c.oaState # "OPEN" THEN c
  ELSE OaSend([c EXCEPT !.greeted = TRUE], ResponseCreate)

\* ------------------------------------------------------------- openaiWs handlers
GreetsAtOpen(v) == v \in {"p002a", "p003", "s1", "s2", "s3", "s4"}

\* openaiWs.on("open"); the socket is OPEN when it runs
OnOpenaiOpen(v, c) ==
  CASE v = "p000" ->
         [OaSend([c EXCEPT !.openaiConnected = TRUE], SessionUpdate)
            EXCEPT !.timerArmed = TRUE]
    [] v = "p001" -> c
    [] v = "p002b" ->
         TrySendGreeting([OaSend(c, SessionUpdate) EXCEPT !.sessionReady = TRUE])
    [] OTHER -> OaSend(OaSend(c, SessionUpdate), ResponseCreate)

\* the timer callback with its sessionReady test inverted
OnFallbackTimerInverted(c) ==
  IF c.sessionReady /\ c.openaiConnected THEN MarkReady(c) ELSE c

\* the callback of the setTimeout of part_000:203
OnFallbackTimer(c) ==
  IF ~c.sessionReady /\ c.openaiConnected THEN MarkReady(c) ELSE c

\* String.prototype.trim on the texts of Texts
Trim(t) == IF t = " " THEN "" ELSE t

Buffers(v) == v \in {"p002a", "s2"}

\* the audio branch without its streamSid test
OnAudioDeltaUnguarded(v, c, p) == TwSend(c, MediaEvent(c.streamSid, p))

\* the audio branch of a buffering session that keeps buffering after start
OnAudioDeltaKeepsBuffering(v, c, p) ==
  IF c.streamSid = "" \/ Buffers(v)
  THEN IF Buffers(v) THEN [c EXCEPT !.pendingAudio = Append(@, p)] ELSE c
  ELSE TwSend(c, MediaEvent(c.streamSid, p))

\* the audio branch of openaiWs.on("message"): drop, buffer or forward
OnAudioDelta(v, c, p) ==
  IF c.streamSid = ""
  THEN IF Buffers(v) THEN [c EXCEPT !.pendingAudio = Append(@, p)] ELSE c
  ELSE TwSend(c, MediaEvent(c.streamSid, p))

\* the transcription branch assigning the new line instead of appending it
OnTranscriptionOverwrites(v, c, t) ==
  IF v = "p001" THEN c ELSE [c EXCEPT !.transcript = << t >>]

\* the transcription branch of openaiWs.on("message")
OnTranscription(v, c, t) ==
  CASE v \in {"p000", "p002a", "p002b", "p003", "s2"} ->
         IF Trim(t) # "" THEN [c EXCEPT !.transcript = Append(@, Trim(t))] ELSE c
    [] v = "s3" -> IF t # "" THEN [c EXCEPT !.transcript = Append(@, t)] ELSE c
    [] v \in {"s1", "s4"} -> [c EXCEPT !.transcript = Append(@, t)]
    [] OTHER -> c

AckTypes == {"session.created", "session.updated"}

DeltaTypes == {"response.audio.delta", "response.output_audio.delta"}

TranscriptionType == "conversation.item.input_audio_transcription.completed"

\* openaiWs.on("message") for a frame that parses as JSON
OnOpenaiMessage(v, c, msg) ==
  IF v = "p001" THEN TwSend(c, RawToTwilio(msg.type, msg.data))
  ELSE IF msg.type \in AckTypes
       THEN IF v = "p000" THEN MarkReady(c) ELSE c
  ELSE IF msg.type = "response.audio.delta" THEN OnAudioDelta(v, c, msg.data)
  ELSE IF msg.type = "response.output_audio.delta"
       THEN IF v = "s1" THEN OnAudioDelta(v, c, msg.data) ELSE c
  ELSE IF msg.type = TranscriptionType THEN OnTranscription(v, c, msg.data)
  ELSE c

\* the handlers call JSON.parse on the frame outside any try block
ParseUnguarded(v) == v = "s4"

\* openaiWs.on("message") for a frame that is not JSON: the relay forwards
\* it, the others return from the catch or let the SyntaxError out
OnOpenaiGarbage(v, c) ==
  IF v = "p001" THEN TwSend(c, RawToTwilio("garbage", NoAudio)) ELSE c

\* twilioWs.on("message") for a frame that is not JSON
OnTwilioGarbage(v, c) ==
  IF v = "p001" THEN OaSendIfOpen(c, RawToModel("garbage", NoAudio)) ELSE c

ClosesTwilioOnModelClose(v) == v \in {"p002a", "p002b", "p003", "s1", "s2", "s3"}

ClosesTwilioOnModelError(v) == v \in {"p002a", "p002b", "p003"}

OnOpenaiClose(v, c) == IF ClosesTwilioOnModelClose(v) THEN TwClose(c) ELSE c

OnOpenaiError(v, c) == IF ClosesTwilioOnModelError(v) THEN TwClose(c) ELSE c

\* ------------------------------------------------------------- finalization
\* What the extraction request came back with: a JSON object, an HTTP error,
\* an empty output_text, an output_text that is no JSON.
ExtractOutcomes == {"ok", "http", "empty", "nojson"}

\* whether extractTicket throws on the outcome (else it returns a ticket)
ExtractThrows(v, o) ==
  CASE o = "ok" -> FALSE
    [] o = "http" -> TRUE
    [] o = "empty" -> v \in {"p000", "p002a", "p003", "s1"}
    [] OTHER -> v \in {"p000", "p002a", "p003", "s1", "s2"}

\* the stop handler has a catch that dispatches a second SMS
HasFallback(v) == v \in {"p000", "p002a", "p003", "s1", "s2"}

\* the stop handler asks the extraction endpoint also for an empty transcript
ExtractsEmpty(v) == v \in {"p002b", "s1", "s2", "s3"}

\* an SMS dispatch attempt: what kind of body, the transcript lines it
\* quotes, and the call id it quotes ("" when it quotes none)
Sms(kind, t, cs) == [kind |-> kind, transcript |-> t, callSid |-> cs]

SetPc(c, i, pc) == [c EXCEPT !.stops[i].pc = pc]

\* the end of the stop handler: its finally block, or its last statement
FinishStop(v, c, i) ==
  LET d == SetPc(c, i, "done") IN
  CASE v = "s2" -> d
    [] v = "p003" -> TwClose(OaClose(d))
    [] OTHER -> OaClose(d)

\* the fallback SMS quotes the transcript variable as it is when the catch runs
FallbackQuotesTranscript(v) == v \in {"p000", "s1", "s2"}

\* the fallback SMS quotes the call id
FallbackQuotesCallSid(v) == v \in {"p000", "p002a", "p003", "s1"}

\* the catch block of the stop handler, up to its await
CatchStop(v, c, i) ==
  IF HasFallback(v)
  THEN SetPc([c EXCEPT !.smsLog = Append(@,
                Sms("fallback",
                    IF FallbackQuotesTranscript(v) THEN c.transcript ELSE << >>,
                    IF FallbackQuotesCallSid(v) THEN c.callSid ELSE ""))],
             i, "fallback")
  ELSE FinishStop(v, c, i)

\* whether the startup check ends the process when a required value is
\* missing: must of part_003:17 and the loop of server.js:23 only log, and
\* part_002 calls requireEnv inside its handlers only
ExitsAtStartup(v) == v \in {}

\* the values of "ALERT_TO_NUMBER is set" under which a call is accepted
EnvAtStop(v) == IF ExitsAtStartup(v) THEN {TRUE} ELSE BOOLEAN

\* the stop handler reads ALERT_TO_NUMBER with requireEnv before its try block
RequiresAlertTo(v) == v = "p002a"

\* the stop handler reads ALERT_TO_NUMBER itself, before its try block; the
\* others leave it to sendSms, where a missing value is a failed dispatch
ReadsAlertTo(v) == v \in {"p002a", "p002b"}

\* the stop branch of twilioWs.on("message"), up to its first await; alertTo
\* tells whether ALERT_TO_NUMBER is set in the environment
BeginStop(v, c, alertTo) ==
  LET i == Len(c.stops) + 1
      n == [c EXCEPT !.stops = Append(@,
              [pc |-> "start", snap |-> c.transcript,
               call |-> IF v = "p000" THEN c.callSid ELSE "",
               alertTo |-> IF ReadsAlertTo(v) THEN alertTo ELSE TRUE,
               err |-> "none"])]
  IN
  CASE v = "p001" -> c
    [] RequiresAlertTo(v) /\ ~alertTo -> SetPc(n, i, "threw")
    [] v = "s4" ->
         SetPc([n EXCEPT !.smsLog = Append(@,
                  Sms(IF c.transcript = << >> THEN "empty" ELSE "raw",
                      c.transcript, ""))], i, "sms")
    [] c.transcript = << >> /\ ~ExtractsEmpty(v) ->
         SetPc([n EXCEPT !.smsLog = Append(@, Sms("empty", << >>, c.callSid))],
               i, "sms")
    [] OTHER ->
         SetPc([IF v = "s2" THEN OaClose(n) ELSE n
                  EXCEPT !.extractReqs = Append(@, c.transcript)], i, "extract")

\* the extraction request of stop handler i completes with outcome o
AfterExtract(v, c, i, o) ==
  IF ExtractThrows(v, o)
  THEN CatchStop(v, [c EXCEPT !.stops[i].err = "extract"], i)
  ELSE IF v = "p002b" /\ ~c.stops[i].alertTo THEN FinishStop(v, c, i)
  ELSE SetPc([c EXCEPT !.smsLog = Append(@,
                Sms(IF o = "ok" THEN "ticket" ELSE "default",
                    c.stops[i].snap,
                    IF v = "p000" THEN c.stops[i].call ELSE c.callSid))],
             i, "sms")

\* the first SMS dispatch of stop handler i completes
AfterSms(v, c, i, ok) ==
  IF ok THEN FinishStop(v, c, i)
  ELSE LET d == [c EXCEPT !.stops[i].err = "sms"] IN
       IF v = "s4" THEN FinishStop(v, d, i) ELSE CatchStop(v, d, i)

\* a fallback dispatch that is tried again when it completes
AfterFallbackRetries(v, c, i) == CatchStop(v, c, i)

\* the fallback SMS dispatch of stop handler i completes, either way
AfterFallback(v, c, i) == FinishStop(v, c, i)

\* ------------------------------------------------------------- twilioWs handlers
\* flushPendingAudio that sends the newest chunk first
FlushPendingAudioReversed(c) ==
  IF c.streamSid = "" \/ c.pendingAudio = << >> THEN c
  ELSE LET n == Len(c.pendingAudio)
           out == [k \in 1..n |-> MediaEvent(c.streamSid, c.pendingAudio[n + 1 - k])]
       IN [c EXCEPT !.pendingAudio = << >>,
                    !.toTwilio = IF c.twState = "OPEN" THEN @ \o out ELSE @]

\* flushPendingAudio of part_002:232 and server.js:495
FlushPendingAudio(c) ==
  IF c.streamSid = "" \/ c.pendingAudio = << >> THEN c
  ELSE LET out == [k \in 1..Len(c.pendingAudio) |->
                     MediaEvent(c.streamSid, c.pendingAudio[k])]
       IN [c EXCEPT !.pendingAudio = << >>,
                    !.toTwilio = IF c.twState = "OPEN" THEN @ \o out ELSE @]

SetsFromNumber(v) == v \in {"p000", "p002a", "p002b", "s3"}

\* the start branch of twilioWs.on("message")
OnStart(v, c, st) ==
  IF v = "p001" THEN OaSendIfOpen(c, RawToModel("start", NoAudio))
  ELSE
    LET n == [c EXCEPT !.streamSid = st.streamSid,
                       !.callSid = IF v = "s4" THEN @ ELSE st.callSid,
                       !.fromNumber = IF SetsFromNumber(v) THEN st.from ELSE @]
    IN CASE v = "p000" -> StartGreetingIfReady(n)
         [] v = "p002b" -> TrySendGreeting(n)
         [] Buffers(v) -> FlushPendingAudio(n)
         [] OTHER -> n

\* the media branch sending each frame twice
OnMediaTwice(v, c, p) ==
  IF c.oaState = "OPEN" THEN OaSend(OaSend(c, AudioAppend(p)), AudioAppend(p)) ELSE c

\* the media branch without its readyState test
OnMediaUnguarded(v, c, p) ==
  IF v = "p001" THEN OaSendIfOpen(c, RawToModel("media", p))
  ELSE OaSend(c, AudioAppend(p))

\* the media branch of twilioWs.on("message")
OnMedia(v, c, p) ==
  IF v = "p001" THEN OaSendIfOpen(c, RawToModel("media", p))
  ELSE IF c.oaState = "OPEN" THEN OaSend(c, AudioAppend(p)) ELSE c

\* the stop branch of twilioWs.on("message")
OnStop(v, c, alertTo) ==
  IF v = "p001" THEN OaSendIfOpen(c, RawToModel("stop", NoAudio))
  ELSE BeginStop(v, c, alertTo)

ClosesModelOnTwilioClose(v) == v \in {"p001", "p002a", "p002b", "p003", "s1", "s3"}

OnTwilioClose(v, c) == IF ClosesModelOnTwilioClose(v) THEN OaClose(c) ELSE c

\* ------------------------------------------------------------- the session
InitSession ==
  /\ variant \in Variants
  /\ streamSid = "" /\ callSid = "" /\ fromNumber = ""
  /\ transcript = << >>
  /\ greeted = FALSE /\ sessionReady = FALSE /\ openaiConnected = FALSE
  /\ pendingAudio = << >>
  /\ oaState = "CONNECTING" /\ twState = "OPEN"
  /\ timerArmed = FALSE /\ oaMiss = FALSE
  /\ toModel = << >> /\ toTwilio = << >>
  /\ stops = << >> /\ extractReqs = << >> /\ smsLog = << >>
  /\ mediaIn = << >> /\ deltaIn = << >>
  /\ ackSeen = FALSE /\ timerFired = FALSE
  /\ nStart = 0 /\ nAck = 0 /\ nUtter = 0 /\ nStop = 0
  /\ nBad = 0 /\ nErr = 0 /\ uncaught = FALSE

\* one session whose peers send well-formed frames
Init == InitSession /\ pair = << >> /\ fx = [pc |-> "off"]

\* what the actions of one such session leave alone
beside == << nBad, nErr, uncaught, pair, fx >>

history == << mediaIn, deltaIn, ackSeen, timerFired, nStart, nAck, nUtter, nStop >>

\* how many media events, audio deltas, transcriptions, stop events, error
\* events and unparseable frames the session has received
Received == Len(mediaIn) + Len(deltaIn) + nUtter + nStop + nBad + nErr

OaDelivers == oaState \in {"OPEN", "CLOSING"}

TwDelivers == twState \in {"OPEN", "CLOSING"}

\* the connection to the model is established
OpenaiOpen ==
  /\ oaState = "CONNECTING"
  /\ Commit(OnOpenaiOpen(variant, [Cur EXCEPT !.oaState = "OPEN"]))
  /\ UNCHANGED << variant, beside, history >>

\* the model sends session.created or session.updated
ModelAck ==
  /\ OaDelivers /\ nAck < MaxAck
  /\ \E t \in AckTypes :
       Commit(OnOpenaiMessage(variant, Cur, [type |-> t, data |-> NoAudio]))
  /\ nAck' = nAck + 1
  /\ ackSeen' = TRUE
  /\ UNCHANGED << variant, beside, mediaIn, deltaIn, timerFired, nStart, nUtter, nStop >>

\* the model sends an audio delta
ModelDelta ==
  /\ OaDelivers /\ Len(deltaIn) < MaxDelta /\ Received < MaxEvents
  /\ \E t \in DeltaTypes :
       LET p == Len(deltaIn) + 1 IN
       /\ Commit(OnOpenaiMessage(variant, Cur, [type |-> t, data |-> p]))
       /\ deltaIn' = Append(deltaIn, [type |-> t, payload |-> p, sid |-> streamSid])
  /\ UNCHANGED << variant, beside, mediaIn, ackSeen, timerFired, nStart, nAck, nUtter, nStop >>

\* the model sends a transcription-completed event
ModelTranscription ==
  /\ OaDelivers /\ nUtter < MaxUtter /\ Received < MaxEvents
  /\ \E t \in Texts :
       Commit(OnOpenaiMessage(variant, Cur, [type |-> TranscriptionType, data |-> t]))
  /\ nUtter' = nUtter + 1
  /\ UNCHANGED << variant, beside, mediaIn, deltaIn, ackSeen, timerFired, nStart, nAck, nStop >>

\* the 1000 ms timer of part_000 elapses
FallbackTimer ==
  /\ timerArmed
  /\ Commit(OnFallbackTimer([Cur EXCEPT !.timerArmed = FALSE]))
  /\ timerFired' = TRUE
  /\ UNCHANGED << variant, beside, mediaIn, deltaIn, ackSeen, nStart, nAck, nUtter, nStop >>

\* the connection to the model ends: refused, dropped, or closed by either side;
\* ws emits "error" before "close" when it ended on an error
OpenaiClosed ==
  /\ oaState # "CLOSED"
  /\ \E err \in BOOLEAN :
       LET c == [Cur EXCEPT !.oaState = "CLOSED"] IN
       Commit(OnOpenaiClose(variant, IF err THEN OnOpenaiError(variant, c) ELSE c))
  /\ UNCHANGED << variant, beside, history >>

TwilioStart ==
  /\ TwDelivers /\ nStart < MaxStart
  /\ \E st \in StartEvents(nStart + 1) : Commit(OnStart(variant, Cur, st))
  /\ nStart' = nStart + 1
  /\ UNCHANGED << variant, beside, mediaIn, deltaIn, ackSeen, timerFired, nAck, nUtter, nStop >>

TwilioMedia ==
  /\ TwDelivers /\ Len(mediaIn) < MaxMedia /\ Received < MaxEvents
  /\ LET p == Len(mediaIn) + 1 IN
       /\ Commit(OnMedia(variant, Cur, p))
       /\ mediaIn' = Append(mediaIn, p)
  /\ UNCHANGED << variant, beside, deltaIn, ackSeen, timerFired, nStart, nAck, nUtter, nStop >>

TwilioStop ==
  /\ TwDelivers /\ nStop < MaxStop /\ Received < MaxEvents
  /\ \E alertTo \in EnvAtStop(variant) : Commit(OnStop(variant, Cur, alertTo))
  /\ nStop' = nStop + 1
  /\ UNCHANGED << variant, beside, mediaIn, deltaIn, ackSeen, timerFired, nStart, nAck, nUtter >>

\* the media-stream connection ends
TwilioClosed ==
  /\ twState # "CLOSED"
  /\ Commit(OnTwilioClose(variant, [Cur EXCEPT !.twState = "CLOSED"]))
  /\ UNCHANGED << variant, beside, history >>

\* the awaited extraction request of a stop handler settles
ExtractDone ==
  \E i \in DOMAIN stops, o \in ExtractOutcomes :
    /\ stops[i].pc = "extract"
    /\ Commit(AfterExtract(variant, Cur, i, o))
    /\ UNCHANGED << variant, beside, history >>

\* the awaited SMS dispatch of a stop handler settles
SmsDone ==
  \E i \in DOMAIN stops, ok \in BOOLEAN :
    /\ stops[i].pc = "sms"
    /\ Commit(AfterSms(variant, Cur, i, ok))
    /\ UNCHANGED << variant, beside, history >>

\* the awaited fallback SMS dispatch of a stop handler settles
FallbackDone ==
  \E i \in DOMAIN stops :
    /\ stops[i].pc = "fallback"
    /\ Commit(AfterFallback(variant, Cur, i))
    /\ UNCHANGED << variant, beside, history >>

Next ==
  \/ OpenaiOpen
  \/ ModelAck
  \/ ModelDelta
  \/ ModelTranscription
  \/ FallbackTimer
  \/ OpenaiClosed
  \/ TwilioStart
  \/ TwilioMedia
  \/ TwilioStop
  \/ TwilioClosed
  \/ ExtractDone
  \/ SmsDone
  \/ FallbackDone

Spec == Init /\ [][Next]_vars

\* the sessions of part_000 alone
InitGated == Init /\ variant = "p000"

SpecGated == InitGated /\ [][Next]_vars

\* the model sends a frame that is not JSON
ModelGarbage ==
  /\ OaDelivers /\ nBad < MaxBad /\ Received < MaxEvents
  /\ Commit(OnOpenaiGarbage(variant, Cur))
  /\ nBad' = nBad + 1
  /\ uncaught' = (uncaught \/ ParseUnguarded(variant))
  /\ UNCHANGED << variant, history, nErr, pair, fx >>

\* the telephony side sends a frame that is not JSON
TwilioGarbage ==
  /\ TwDelivers /\ nBad < MaxBad /\ Received < MaxEvents
  /\ Commit(OnTwilioGarbage(variant, Cur))
  /\ nBad' = nBad + 1
  /\ uncaught' = (uncaught \/ ParseUnguarded(variant))
  /\ UNCHANGED << variant, history, nErr, pair, fx >>

\* the model sends an "error" event
ModelError ==
  /\ OaDelivers /\ nErr < MaxErr /\ Received < MaxEvents
  /\ Commit(OnOpenaiMessage(variant, Cur, [type |-> "error", data |-> NoAudio]))
  /\ nErr' = nErr + 1
  /\ UNCHANGED << variant, history, nBad, uncaught, pair, fx >>

NextFrames ==
  \/ Next
  \/ ModelGarbage
  \/ TwilioGarbage
  \/ ModelError

\* the sessions whose peers may also send unparseable frames and error
\* events: part_000, the raw relay of part_001 and the fourth session of
\* server.js
FrameVariants == {"p000", "p001", "s4"}

InitFrames == Init /\ variant \in FrameVariants

SpecFrames == InitFrames /\ [][NextFrames]_vars

\* ------------------------------------------------------------- two sessions
\* The names of session variables declared outside the callback of
\* wss.on("connection"): a write to one of them is seen by every session of
\* the process. All of them are declared inside the callback.
SharedNamesWithSid == {"streamSid"}

SharedNames == {}

\* the state of session k after a handler of another session left that
\* session in state n
Share(o, n) == [f \in DOMAIN o |-> IF f \in SharedNames THEN n[f] ELSE o[f]]

\* a handler of session s ran and left it in state n
Handled(s, n) ==
  /\ pair.steps < MaxPairSteps
  /\ pair' = [sess |-> [k \in {1, 2} |->
                          IF k = s THEN n ELSE Share(pair.sess[k], n)],
              last |-> s, steps |-> pair.steps + 1]
  /\ UNCHANGED << variant, streamSid, callSid, fromNumber, transcript, greeted,
                  sessionReady, openaiConnected, pendingAudio, oaState, twState,
                  timerArmed, oaMiss, toModel, toTwilio, stops, extractReqs, smsLog,
                  history, nBad, nErr, uncaught, fx >>

PairOpenaiOpen ==
  \E s \in {1, 2} :
    /\ pair.sess[s].oaState = "CONNECTING"
    /\ Handled(s, OnOpenaiOpen(variant, [pair.sess[s] EXCEPT !.oaState = "OPEN"]))

\* session s receives an ack, an audio delta carrying s, or a transcription
PairModelMessage ==
  \E s \in {1, 2} :
    \E msg \in { [type |-> "session.updated", data |-> NoAudio],
                  [type |-> "response.audio.delta", data |-> s],
                  [type |-> TranscriptionType, data |-> "fontanero"] } :
      /\ pair.sess[s].oaState \in {"OPEN", "CLOSING"}
      /\ Handled(s, OnOpenaiMessage(variant, pair.sess[s], msg))

PairFallbackTimer ==
  \E s \in {1, 2} :
    /\ pair.sess[s].timerArmed
    /\ Handled(s, OnFallbackTimer([pair.sess[s] EXCEPT !.timerArmed = FALSE]))

PairOpenaiClosed ==
  \E s \in {1, 2} :
    /\ pair.sess[s].oaState # "CLOSED"
    /\ Handled(s, OnOpenaiClose(variant, [pair.sess[s] EXCEPT !.oaState = "CLOSED"]))

\* session s receives its start event, which carries the ids of call s
PairTwilioStart ==
  \E s \in {1, 2} :
    /\ pair.sess[s].twState \in {"OPEN", "CLOSING"}
    /\ Handled(s, OnStart(variant, pair.sess[s],
                          [streamSid |-> SidOf(s), callSid |-> CallOf(s),
                           from |-> "+34600"]))

PairTwilioMedia ==
  \E s \in {1, 2} :
    /\ pair.sess[s].twState \in {"OPEN", "CLOSING"}
    /\ Handled(s, OnMedia(variant, pair.sess[s], s))

PairTwilioStop ==
  \E s \in {1, 2}, alertTo \in EnvAtStop(variant) :
    /\ pair.sess[s].twState \in {"OPEN", "CLOSING"}
    /\ Handled(s, OnStop(variant, pair.sess[s], alertTo))

PairTwilioClosed ==
  \E s \in {1, 2} :
    /\ pair.sess[s].twState # "CLOSED"
    /\ Handled(s, OnTwilioClose(variant, [pair.sess[s] EXCEPT !.twState = "CLOSED"]))

\* an await of a stop handler of session s settles
PairExtractDone ==
  \E s \in {1, 2}, o \in ExtractOutcomes :
    \E i \in DOMAIN pair.sess[s].stops :
      /\ pair.sess[s].stops[i].pc = "extract"
      /\ Handled(s, AfterExtract(variant, pair.sess[s], i, o))

PairSmsDone ==
  \E s \in {1, 2}, ok \in BOOLEAN :
    \E i \in DOMAIN pair.sess[s].stops :
      /\ pair.sess[s].stops[i].pc = "sms"
      /\ Handled(s, AfterSms(variant, pair.sess[s], i, ok))

PairFallbackDone ==
  \E s \in {1, 2} :
    \E i \in DOMAIN pair.sess[s].stops :
      /\ pair.sess[s].stops[i].pc = "fallback"
      /\ Handled(s, AfterFallback(variant, pair.sess[s], i))

NextPair ==
  \/ PairOpenaiOpen
  \/ PairModelMessage
  \/ PairFallbackTimer
  \/ PairOpenaiClosed
  \/ PairTwilioStart
  \/ PairTwilioMedia
  \/ PairTwilioStop
  \/ PairTwilioClosed
  \/ PairExtractDone
  \/ PairSmsDone
  \/ PairFallbackDone

\* two connections accepted by one process, each with its own closure
InitPair ==
  /\ InitSession
  /\ pair = [sess |-> [k \in {1, 2} |-> Cur], last |-> 0, steps |-> 0]
  /\ fx = [pc |-> "off"]

SpecPair == InitPair /\ [][NextPair]_vars

\* ------------------------------------------------------------- the ticket
\* the keys of a ticket, in the order of the lines of the message
FieldNames ==
  << "servicio", "nombre", "telefono", "direccion", "zona", "urgente",
     "aceptoNocturno", "averia", "notas" >>

Labels ==
  << "Servicio", "Nombre", "Tel", "Dirección", "Zona", "Urgente",
     "Acepto nocturno", "Avería", "Notas" >>

\* the header line, without its leading pictograph
Header == "AVISO URGENCIA (MARTA)"

\* what reading a key gives when the object has no such key
Undefined == "undefined"

\* a || b of JavaScript on strings and undefined
Or(a, b) == IF a \in {"", Undefined} THEN b ELSE a

\* a ticket with every key filled
FullTicket ==
  [ servicio |-> "fontanería", nombre |-> "Ana", telefono |-> "600111222",
    direccion |-> "Calle Mayor 1", zona |-> "Centro", urgente |-> "si",
    aceptoNocturno |-> "si", averia |-> "fuga", notas |-> "portal B" ]

\* the objects the extraction endpoint may return: the model's obedience to
\* the prompt is not the program's, so any key may be empty or missing and
\* aceptoNocturno may hold any of its three values
EndpointObjects ==
  { [FullTicket EXCEPT ![FieldNames[k]] = e] :
      k \in DOMAIN FieldNames, e \in {"", Undefined} }
  \cup { [FullTicket EXCEPT !.aceptoNocturno = a] : a \in {"si", "no", "n-a"} }

\* newTicket of part_003:95
NewTicket ==
  [ servicio |-> "", nombre |-> "", telefono |-> "", direccion |-> "",
    zona |-> "", urgente |-> "", aceptoNocturno |-> "n-a", averia |-> "",
    notas |-> "" ]

\* the ticket an extractor returns without a parsed object
DefaultTicket(night) ==
  [NewTicket EXCEPT !.aceptoNocturno = IF night THEN "no" ELSE "n-a",
                    !.notas = "Sin transcripción (posible fallo de audio)"]

\* the ticket of the fallback SMS of part_003:286
FallbackTicket == [NewTicket EXCEPT !.notas = "Error extrayendo parte"]

\* the extractor of the session returns a ticket of its own making when the
\* transcript is empty or the output is empty or unparseable
MakesDefaultTicket(v) == v \in {"p002b", "p003", "s2", "s3"}

\* the array of lines before filter(Boolean): an absent line is the empty
\* string, here the empty tuple
Lines(v, t, cs, from) ==
  << << Header >>,
     << Labels[1], Or(t.servicio, "-") >>,
     << Labels[2], Or(t.nombre, "-") >>,
     << Labels[3], IF v = "p000" THEN Or(t.telefono, Or(from, "-"))
                   ELSE Or(t.telefono, "-") >>,
     IF v = "p002b" /\ from # "" THEN << "Llama desde", from >> ELSE << >>,
     << Labels[4], Or(t.direccion, "-") >>,
     << Labels[5], Or(t.zona, "-") >>,
     << Labels[6], Or(t.urgente, "-") >>,
     << Labels[7], Or(t.aceptoNocturno, "-") >>,
     << Labels[8], Or(t.averia, "-") >>,
     << Labels[9], Or(t.notas, "-") >>,
     IF cs # "" THEN << "CallSid", cs >> ELSE << >> >>

\* a formatSms that clears the notes of the ticket it was given
FormatSmsConsuming(v, t, cs, from) ==
  [ text |-> SelectSeq(Lines(v, t, cs, from), LAMBDA l : l # << >>),
    ticket |-> [t EXCEPT !.notas = ""] ]

\* formatSms, and the return statement of buildSmsFromTranscript in
\* part_000: the message as its lines, and the ticket object after the call
FormatSms(v, t, cs, from) ==
  [ text |-> SelectSeq(Lines(v, t, cs, from), LAMBDA l : l # << >>),
    ticket |-> t ]

\* the sessions that format a ticket
TicketVariants == {"p000", "p002a", "p002b", "p003", "s1", "s2", "s3"}

NoTicket == [NewTicket EXCEPT !.aceptoNocturno = ""]

\* a stop handler about to build its ticket: the night flag and the ids of
\* the session, and the object the extraction endpoint would return
InitTicket ==
  /\ InitSession /\ variant \in TicketVariants
  /\ pair = << >>
  /\ \E night \in BOOLEAN, cs \in {"", CallOf(1)}, from \in {"", "+34600"},
        json \in EndpointObjects :
       fx = [ pc |-> "stop", night |-> night, callSid |-> cs,
              fromNumber |-> from, json |-> json, given |-> NoTicket,
              ticket |-> NoTicket, text |-> << >>, again |-> << >> ]

TicketStep ==
  UNCHANGED << variant, streamSid, callSid, fromNumber, transcript, greeted,
               sessionReady, openaiConnected, pendingAudio, oaState, twState,
               timerArmed, oaMiss, toModel, toTwilio, stops, extractReqs, smsLog,
               history, nBad, nErr, uncaught, pair >>

\* extractTicket returns the object it parsed
TicketExtracted ==
  /\ fx.pc = "stop"
  /\ fx' = [fx EXCEPT !.pc = "ticket", !.given = fx.json, !.ticket = fx.json]
  /\ TicketStep

\* extractTicket returns a ticket of its own making
TicketDefaulted ==
  /\ fx.pc = "stop" /\ MakesDefaultTicket(variant)
  /\ fx' = [fx EXCEPT !.pc = "ticket", !.given = DefaultTicket(fx.night),
                      !.ticket = DefaultTicket(fx.night)]
  /\ TicketStep

\* the catch block of part_003 builds the ticket of the fallback SMS
TicketFallback ==
  /\ fx.pc = "stop" /\ variant = "p003"
  /\ fx' = [fx EXCEPT !.pc = "ticket", !.given = FallbackTicket,
                      !.ticket = FallbackTicket]
  /\ TicketStep

\* the stop handler formats the ticket
Format ==
  /\ fx.pc = "ticket"
  /\ LET r == FormatSms(variant, fx.ticket, fx.callSid, fx.fromNumber) IN
       fx' = [fx EXCEPT !.pc = "formatted", !.text = r.text, !.ticket = r.ticket]
  /\ TicketStep

\* the same ticket object is formatted a second time
FormatAgain ==
  /\ fx.pc = "formatted"
  /\ LET r == FormatSms(variant, fx.ticket, fx.callSid, fx.fromNumber) IN
       fx' = [fx EXCEPT !.pc = "twice", !.again = r.text, !.ticket = r.ticket]
  /\ TicketStep

NextTicket ==
  \/ TicketExtracted
  \/ TicketDefaulted
  \/ TicketFallback
  \/ Format
  \/ FormatAgain

SpecTicket == InitTicket /\ [][NextTicket]_vars

\* ------------------------------------------------------------- output_text
\* output_text as a string over four characters: the two braces, "k" for
\* text that may stand between the braces of a JSON object (its members),
\* and "x" for any other text (prose). None of them is white space, which
\* is all that trim() removes.
Chars == {"{", "}", "k", "x"}

Outputs == UNION { [1..n -> Chars] : n \in 0..MaxOut }

\* out.indexOf(ch) and out.lastIndexOf(ch), counted from 1; 0 for not found
IndexOf(out, ch) ==
  IF \E i \in DOMAIN out : out[i] = ch
  THEN CHOOSE i \in DOMAIN out : out[i] = ch /\ \A j \in 1..(i - 1) : out[j] # ch
  ELSE 0

LastIndexOf(out, ch) ==
  IF \E i \in DOMAIN out : out[i] = ch
  THEN CHOOSE i \in DOMAIN out :
         out[i] = ch /\ \A j \in (i + 1)..Len(out) : out[j] # ch
  ELSE 0

\* braces opened and not yet closed after the first i characters of s
Depth(s, i) ==
  Cardinality({j \in 1..i : s[j] = "{"}) - Cardinality({j \in 1..i : s[j] = "}"})

\* s is the text of one JSON object: it opens with a brace that its last
\* character closes, and holds only members and nested objects
IsJsonObject(s) ==
  /\ Len(s) >= 2 /\ s[1] = "{"
  /\ \A i \in DOMAIN s : s[i] # "x"
  /\ \A i \in 1..(Len(s) - 1) : Depth(s, i) >= 1
  /\ Depth(s, Len(s)) = 0

\* JSON.parse: the object, or a SyntaxError
JsonParse(s) ==
  IF IsJsonObject(s) THEN [thrown |-> FALSE, value |-> s]
  ELSE [thrown |-> TRUE, value |-> << >>]

\* part_000:402-404: from the first opening brace to the last closing one
Candidate(out) ==
  LET first == IndexOf(out, "{")
      last == LastIndexOf(out, "}")
  IN IF first > 0 /\ last > 0 THEN SubSeq(out, first, last) ELSE out

\* the end of extractTicket of part_000, from output_text on
ParseOutputText(out) == JsonParse(Candidate(out))

\* extractTicket of part_000 has received output_text
InitExtract ==
  /\ InitSession /\ variant = "p000"
  /\ pair = << >>
  /\ \E out \in Outputs :
       fx = [pc |-> "out", out |-> out, thrown |-> FALSE, value |-> << >>]

\* extractTicket returns the parsed object or throws
ExtractReturns ==
  /\ fx.pc = "out"
  /\ LET r == ParseOutputText(fx.out) IN
       fx' = [fx EXCEPT !.pc = "returned", !.thrown = r.thrown, !.value = r.value]
  /\ TicketStep

NextExtract == ExtractReturns

SpecExtract == InitExtract /\ [][NextExtract]_vars

\* ------------------------------------------------------------- the clock
\* d.getHours() of the local time
Hours == 0..23

\* isNightWindow with the late bound excluded
IsNightWindowAfterTen(h) == h > 22 \/ h < 8

\* isNightWindow of part_000:51, esNoche of part_002:55
IsNightWindow(h) == h >= 22 \/ h < 8

\* dayPart of part_000:57, parteDelDia of part_002:56
DayPart(h) ==
  IF h >= 8 /\ h < 14 THEN "mañana"
  ELSE IF h >= 14 /\ h < 22 THEN "tarde"
  ELSE "noche"

\* the sessions that compute the night flag and the day part
ClockVariants == {"p000", "p002a", "p002b", "p003", "s1", "s2", "s3"}

\* a connection is accepted at some hour of the day
InitClock ==
  /\ InitSession /\ variant \in ClockVariants
  /\ pair = << >>
  /\ \E h \in Hours : fx = [pc |-> "hour", hour |-> h, night |-> FALSE, part |-> ""]

\* const night = isNightWindow(tNow); const part = dayPart(tNow)
ResolveClock ==
  /\ fx.pc = "hour"
  /\ fx' = [fx EXCEPT !.pc = "resolved", !.night = IsNightWindow(fx.hour),
                      !.part = DayPart(fx.hour)]
  /\ TicketStep

NextClock == ResolveClock

SpecClock == InitClock /\ [][NextClock]_vars

\* ------------------------------------------------------------- observations
\* the greeting instructions among the frames sent to the model
Greetings(frames) == {k \in DOMAIN frames : frames[k] = ResponseCreate}

GreetCount == Cardinality(Greetings(toModel))

Last(q) == q[Len(q)]


\* ------------------------------------------------------------- C1
\* C1: in a call session, whatever the interleaving of the model connection's
\* open, session.created/session.updated, the fallback timer and (repeated)
\* start events, the greeting response.create is sent to the model at most once.
C1_GreetingAtMostOnce == GreetCount <= 1

\* both readiness signals, the timer and two start events have happened
C1_Witness ==
  /\ GreetCount = 1 /\ nStart = 2 /\ ackSeen /\ timerFired
  /\ streamSid = SidOf(2)

\* ------------------------------------------------------------- C2
\* C2: in the session of part_000 the greeting is sent only in a step that ends
\* with the model session ready (an acknowledgment was received or the fallback
\* timer fired), a non-empty streamSid supplied and the model connection open.
C2_GreetingOnlyWhenReady ==
  [][ GreetCount' > GreetCount =>
        /\ ackSeen' \/ timerFired'
        /\ streamSid' # ""
        /\ oaState' = "OPEN" ]_vars

C2_Witness == GreetCount = 1 /\ greeted /\ sessionReady /\ streamSid # ""

\* ------------------------------------------------------------- C3
\* the readiness signals of part_000 that can arrive in state c
ReadySignals(c) == AckTypes \cup (IF c.timerArmed THEN {"timer"} ELSE {})

Ready(c, r) ==
  IF r = "timer" THEN OnFallbackTimer([c EXCEPT !.timerArmed = FALSE])
  ELSE OnOpenaiMessage("p000", c, [type |-> r, data |-> NoAudio])

\* C3: in the session of part_000, with the model connection open, a start event
\* that supplies streamSid and a readiness signal commute: both orders end in the
\* same state, the first of the two sends nothing unless the other condition
\* already held, and the second one sends the one greeting.
C3_JoinCommutes ==
  oaState = "OPEN" =>
    \A st \in {e \in StartEvents(nStart + 1) : e.streamSid # ""} :
      \A r \in ReadySignals(Cur) :
        LET afterStart == OnStart("p000", Cur, st)
            afterReady == Ready(Cur, r)
            startThenReady == Ready(afterStart, r)
            readyThenStart == OnStart("p000", afterReady, st)
        IN /\ startThenReady = readyThenStart
           /\ startThenReady.greeted
           /\ ~sessionReady => afterStart.toModel = toModel
           /\ streamSid = "" => afterReady.toModel = toModel
           /\ ~greeted => startThenReady.toModel = Append(toModel, ResponseCreate)
           /\ greeted => startThenReady.toModel = toModel

\* the join has happened: a start event and a readiness signal, in some order
C3_Witness ==
  /\ oaState = "OPEN" /\ nStart = 1 /\ streamSid = SidOf(1)
  /\ sessionReady /\ greeted /\ toModel = << SessionUpdate, ResponseCreate >>

\* ------------------------------------------------------------- C4
\* C4: in the session of part_000, when no session.created or session.updated
\* has arrived, the fallback timer has elapsed, a start event has supplied
\* streamSid and the model connection is still open, the greeting has been sent
\* exactly once.
C4_FallbackGreets ==
  (nAck = 0 /\ timerFired /\ streamSid # "" /\ oaState = "OPEN")
    => (greeted /\ GreetCount = 1)

C4_Witness ==
  nAck = 0 /\ timerFired /\ streamSid # "" /\ oaState = "OPEN" /\ GreetCount = 1


\* ------------------------------------------------------------- C5
\* C5: in the sessions that greet from the open handler (server.js first
\* session, part_002 second session) the greeting is sent only after the model
\* has confirmed the session configuration and a start event has supplied
\* streamSid.
C5_GreetingAfterAckAndStart ==
  [][ (variant \in {"s1", "p002b"} /\ GreetCount' > GreetCount) =>
        (ackSeen' /\ streamSid' # "") ]_vars

\* ------------------------------------------------------------- C6
\* the frames of q that are media events, in order
MediaFrames(q) == SelectSeq(q, LAMBDA f : f.event = "media")

DeltaPayloads(d) ==
  LET kept == SelectSeq(d, LAMBDA e : e.type = "response.audio.delta")
  IN [k \in 1..Len(kept) |-> kept[k].payload]

Tagged(sid, payloads) == [k \in 1..Len(payloads) |-> MediaEvent(sid, payloads[k])]

\* C7: in the buffering sessions (part_002 first session, server.js second
\* session), with the media connection open: until the first start event
\* arrives the buffer holds every delta received, in arrival order; the step
\* that processes that start event sends the whole buffer, in that order, and
\* empties it; the buffer is empty whenever streamSid is known, so a later delta
\* is sent after the flushed ones.
C7_FlushOnStart ==
  /\ [](Buffers(variant) =>
          /\ streamSid # "" => pendingAudio = << >>
          /\ nStart = 0 =>
               pendingAudio = DeltaPayloads(deltaIn))
  /\ [][ (Buffers(variant) /\ nStart' # nStart /\ streamSid' # ""
          /\ twState = "OPEN") =>
           /\ toTwilio' = toTwilio \o Tagged(streamSid', pendingAudio)
           /\ pendingAudio' = << >> ]_vars

\* two deltas arrived before streamSid was known and the start event sent both
C7_Witness ==
  /\ Buffers(variant) /\ nStart = 1
  /\ Len(deltaIn) = 2 /\ deltaIn[1].sid = "" /\ deltaIn[2].sid = ""
  /\ toTwilio = Tagged(SidOf(1), << 1, 2 >>) /\ pendingAudio = << >>

\* ------------------------------------------------------------- C8
\* the caller's audio among the frames sent to the model, in order
CallerAudio(frames) ==
  LET a == SelectSeq(frames,
                     LAMBDA f : f.type \in {"input_audio_buffer.append", "media"})
  IN [k \in 1..Len(a) |-> a[k].audio]

\* C8: within one session only the step that receives a media event sends
\* caller audio to the model, it sends at most one frame and that frame carries
\* the event's payload: the audio sent is a subsequence of the audio received,
\* in arrival order, nothing twice, nothing merged, nothing held back.
C8_CallerAudioInOrder ==
  [][ IF mediaIn' # mediaIn
      THEN \/ CallerAudio(toModel') = CallerAudio(toModel)
           \/ CallerAudio(toModel') = Append(CallerAudio(toModel), Last(mediaIn'))
      ELSE CallerAudio(toModel') = CallerAudio(toModel) ]_vars

\* the first frame came while the model connection was not open, the second
\* was forwarded
C8_Witness ==
  /\ mediaIn = << 1, 2 >> /\ CallerAudio(toModel) = << 2 >>
  /\ Last(toModel) = AudioAppend(2)

\* ------------------------------------------------------------- C9
StrictlyIncreasing(q) == \A i, j \in DOMAIN q : i < j => q[i] < q[j]

MediaPayloads(q) ==
  LET m == MediaFrames(q) IN [k \in 1..Len(m) |-> m[k].payload]

\* C9: within one session, with the media connection open, the step that
\* receives a response.audio.delta while streamSid is known sends exactly one
\* media event, carrying the delta's payload and the current streamSid, and the
\* payloads sent to the caller are in the order of their arrival, none twice.
C9_DeltasForwardedInOrder ==
  /\ [][ (/\ deltaIn' # deltaIn
          /\ Last(deltaIn').type = "response.audio.delta"
          /\ streamSid # "" /\ twState = "OPEN") =>
           toTwilio' = Append(toTwilio, MediaEvent(streamSid, Last(deltaIn').payload)) ]_vars
  /\ [](StrictlyIncreasing(MediaPayloads(toTwilio)))

\* two deltas arrived under two different streamSids and each was sent with
\* the one current at its arrival
C9_Witness ==
  /\ Len(deltaIn) = 2 /\ deltaIn[1].sid = SidOf(1) /\ deltaIn[2].sid = SidOf(2)
  /\ toTwilio = << MediaEvent(SidOf(1), 1), MediaEvent(SidOf(2), 2) >>

\* ------------------------------------------------------------- C10
\* C10: in the session of part_000, a media event received after the greeting
\* was sent and before any stop event has its payload sent to the model, as
\* exactly one input_audio_buffer.append, in the step that receives it.
C10_NoCallerFrameLost ==
  [][ (mediaIn' # mediaIn /\ GreetCount > 0 /\ nStop = 0) =>
        toModel' = Append(toModel, AudioAppend(Last(mediaIn'))) ]_vars

\* ------------------------------------------------------------- C11
IsPrefix(a, b) == Len(a) <= Len(b) /\ SubSeq(b, 1, Len(a)) = a

\* C11: the transcript is append-only: every step leaves the previous
\* transcript as a prefix of the new one, and only the step that receives a
\* transcription-completed event changes it.
C11_TranscriptAppendOnly ==
  [][ /\ IsPrefix(transcript, transcript')
      /\ transcript' # transcript => nUtter' = nUtter + 1 ]_vars

\* a line was appended after a stop event had taken its copy of the transcript
C11_Witness ==
  /\ Len(transcript) = 2 /\ nUtter = 2
  /\ Len(stops) = 1 /\ stops[1].snap = << transcript[1] >>

\* ------------------------------------------------------------- C12
\* C12: every transcription-completed event received appends exactly one
\* line to the transcript, so the transcript has as many lines as events were
\* received (in the sessions that keep a transcript).
C12_OneLinePerTranscription ==
  variant # "p001" => Len(transcript) = nUtter

\* ------------------------------------------------------------- C13
\* the kinds of SMS built from what the extractor returned
Structured == {"ticket", "default"}

\* stop handler i is at pc after the step and was not before it
Entered(i, pc) ==
  /\ i \in DOMAIN stops' /\ stops'[i].pc = pc
  /\ i \in DOMAIN stops => stops[i].pc # pc

\* C13: the step that processes a stop event with a non-empty transcript
\* (with ALERT_TO_NUMBER configured) requests an extraction of exactly the transcript accumulated so far; a
\* structured SMS is dispatched only in the step in which the extractor returns
\* a ticket to that stop handler, and none is when the extractor failed.
C13_ExtractThenDispatch ==
  [][ /\ (/\ nStop' # nStop /\ transcript # << >> /\ variant # "p001"
          /\ Last(stops').pc # "threw") =>
           extractReqs' = Append(extractReqs, transcript)
      /\ (smsLog' # smsLog /\ Last(smsLog').kind \in Structured) =>
           \E i \in DOMAIN stops :
             /\ stops[i].pc = "extract" /\ stops'[i].pc = "sms"
             /\ stops'[i].err = "none"
             /\ Last(smsLog').transcript = stops[i].snap ]_vars

\* ------------------------------------------------------------- C14
StructuredCount == Len(SelectSeq(smsLog, LAMBDA m : m.kind \in Structured))

\* C14: per call session (part_000, part_003), whatever telephony events
\* arrive, more than one stop event included, the extraction endpoint is
\* requested at most once and a structured SMS is dispatched at most once.
C14_FinalizeOnce ==
  variant \in {"p000", "p003"} => (Len(extractReqs) <= 1 /\ StructuredCount <= 1)

\* ------------------------------------------------------------- C15
\* C15: the step that processes a stop event with an empty transcript (with
\* ALERT_TO_NUMBER configured) makes no extraction request and dispatches the
\* fixed no-transcription message, with the call id when known.
C15_EmptyShortCircuits ==
  [][ (/\ nStop' # nStop /\ transcript = << >> /\ variant # "p001"
       /\ Last(stops').pc # "threw") =>
        /\ extractReqs' = extractReqs
        /\ smsLog' = Append(smsLog, Sms("empty", << >>, callSid)) ]_vars

\* ------------------------------------------------------------- C16
\* C16: in the stop handlers of part_000, part_002 (first session) and
\* part_003, the step in which the extraction or the structured dispatch fails
\* dispatches a fallback SMS that quotes the transcript accumulated for the call
\* and the call id.
C16_FallbackQuotesTranscript ==
  [][ \A i \in DOMAIN stops :
        (/\ variant \in {"p000", "p002a", "p003"}
         /\ stops[i].err = "none" /\ stops'[i].err # "none") =>
          smsLog' = Append(smsLog, Sms("fallback", transcript, callSid)) ]_vars

\* ------------------------------------------------------------- C17
Rank(pc) ==
  CASE pc = "start" -> 0
    [] pc = "extract" -> 1
    [] pc = "sms" -> 2
    [] pc = "fallback" -> 3
    [] OTHER -> 4

\* C17: a stop handler only moves forward through request, dispatch, fallback
\* and end; an extraction request is made exactly when a handler enters the
\* request, an SMS is dispatched exactly when a handler enters the dispatch or
\* the fallback, so one stop event costs at most one request and two SMS; when
\* the fallback dispatch settles, failed or not, the handler ends and sends
\* nothing more.
C17_BoundedRecovery ==
  [][ /\ Len(stops') >= Len(stops)
      /\ \A i \in DOMAIN stops :
           \/ stops'[i].pc = stops[i].pc
           \/ Rank(stops'[i].pc) > Rank(stops[i].pc)
      /\ Len(extractReqs') - Len(extractReqs) =
           Cardinality({i \in DOMAIN stops' : Entered(i, "extract")})
      /\ Len(smsLog') - Len(smsLog) =
           Cardinality({i \in DOMAIN stops' :
                          Entered(i, "sms") \/ Entered(i, "fallback")})
      /\ \A i \in DOMAIN stops :
           (stops[i].pc = "fallback" /\ stops'[i].pc # "fallback") =>
             (stops'[i].pc = "done" /\ smsLog' = smsLog) ]_vars

\* one stop event: extraction returned, the structured dispatch failed, the
\* fallback was dispatched and the handler ended
C17_Witness ==
  /\ Len(stops) = 1 /\ stops[1].pc = "done" /\ stops[1].err = "sms"
  /\ Len(extractReqs) = 1 /\ Len(smsLog) = 2
  /\ smsLog[1].kind = "ticket" /\ smsLog[2].kind = "fallback"

\* ------------------------------------------------------------- C18
\* C18: whatever the outcomes of finalization and whether or not the
\* configuration is present, a stop handler that has ended has closed the
\* connection to the model.
C18_StopClosesModel ==
  \A i \in DOMAIN stops :
    stops[i].pc \in {"done", "threw"} => oaState \in {"CLOSING", "CLOSED"}

\* ------------------------------------------------------------- C19
\* C19: in part_000, server.js (first session) and part_002 (first session),
\* the step in which the model connection closes before any stop event closes
\* the media connection.
C19_ModelCloseClosesCall ==
  [][ (/\ variant \in {"p000", "s1", "p002a"}
       /\ oaState # "CLOSED" /\ oaState' = "CLOSED"
       /\ nStop = 0 /\ twState = "OPEN") => twState' # "OPEN" ]_vars

\* ------------------------------------------------------------- C20
\* C20: in part_000, server.js (first session) and part_001, the step in
\* which the media connection closes, after a stop event or without one, closes
\* the connection to the model.
C20_CallCloseClosesModel ==
  [][ (/\ variant \in {"p000", "s1", "p001"}
       /\ twState # "CLOSED" /\ twState' = "CLOSED") =>
        oaState' \in {"CLOSING", "CLOSED"} ]_vars

\* ------------------------------------------------------------- claims C21-C30
\* every stop handler of the session has run to its end
StopsSettled == \A i \in DOMAIN stops : stops[i].pc \in {"done", "threw"}

\* the session has ended: both connections are closed and no stop handler
\* is still running
Ended == twState = "CLOSED" /\ oaState = "CLOSED" /\ StopsSettled

\* C21: a session that received a start event has attempted at least one SMS
\* dispatch by the time it has ended, whichever connection closed first and
\* whether or not a stop event arrived.
C21_SmsBeforeSessionEnds ==
  (variant # "p001" /\ nStart > 0 /\ Ended) => smsLog # << >>

\* C22: once a stop handler has finished and the close of the model
\* connection has been handled, the session has closed the media-stream
\* connection itself: the connection is not left open for the telephony side
\* to close.
C22_SessionClosesCall ==
  (variant # "p001" /\ StopsSettled /\ oaState = "CLOSED"
     /\ \E i \in DOMAIN stops : stops[i].pc = "done")
    => twState # "OPEN"

\* the closure variables the claims name
Named == << streamSid, callSid, transcript, greeted, sessionReady >>

\* C23: in the handlers of part_000 and of the fourth session of server.js,
\* a frame that is not JSON is dropped: the step that receives it sends
\* nothing on either connection, leaves streamSid, callSid, transcript,
\* greeted and sessionReady as they were, and lets no exception out of the
\* handler.
C23_GarbageDropped ==
  [][ (variant \in {"p000", "s4"} /\ nBad' = nBad + 1)
        => /\ toModel' = toModel /\ toTwilio' = toTwilio
           /\ Named' = Named
           /\ uncaught' = uncaught ]_vars

\* C24: every frame sent on the media-stream connection is a media event
\* whose payload is the payload of an audio delta received from the model,
\* whatever error events, extraction failures and dispatch failures occur.
C24_OnlyModelAudioToCaller ==
  \A k \in DOMAIN toTwilio :
    /\ toTwilio[k].event = "media"
    /\ \E j \in DOMAIN deltaIn : toTwilio[k].payload = deltaIn[j].payload

C26_NocturnoFollowsNight ==
  fx.pc \in {"formatted", "twice"} =>
    IF fx.night THEN fx.given.aceptoNocturno \in {"si", "no"}
    ELSE fx.given.aceptoNocturno = "n-a"

Described(t, cs) ==
  << << Header >> >>
  \o [k \in 1..9 |-> << Labels[k], Or(t[FieldNames[k]], "-") >>]
  \o (IF cs # "" THEN << << "CallSid", cs >> >> ELSE << >>)

\* C30: the formatted message is the header line, then the nine field
\* lines in their fixed order, an empty or missing field rendered as "-",
\* then the CallSid line exactly when the call id is not empty.
C30_MessageLayout ==
  fx.pc \in {"formatted", "twice"} => fx.text = Described(fx.given, fx.callSid)

\* the position of the brace that closes the first opening brace of out;
\* 0 when there is none
Matching(out) ==
  LET first == IndexOf(out, "{")
      closes == {j \in DOMAIN out :
                   /\ first > 0 /\ j > first
                   /\ Depth(out, j) = Depth(out, first) - 1
                   /\ \A i \in first..(j - 1) : Depth(out, i) >= Depth(out, first)}
  IN IF closes = {} THEN 0 ELSE CHOOSE j \in closes : TRUE

\* the outermost balanced brace-delimited substring of out
Balanced(out) == SubSeq(out, IndexOf(out, "{"), Matching(out))

\* C28: when output_text holds a JSON object between its first opening
\* brace and the brace that matches it, extractTicket returns that object,
\* whatever text stands before the opening brace and after the matching
\* closing brace, further braces included.
C28_OutermostObjectParsed ==
  (fx.pc = "returned" /\ Matching(fx.out) > 0 /\ IsJsonObject(Balanced(fx.out)))
    => ~fx.thrown /\ fx.value = Balanced(fx.out)

\* C27: in the extractors of part_000, of the second session of part_002
\* and of the third session of server.js, an HTTP failure, an empty output
\* and an unparseable output are thrown: no SMS is built from a ticket that
\* the extractor made up after such an outcome.
C27_FailuresThrown ==
  variant \in {"p000", "p002b", "s3"} =>
    \A k \in DOMAIN smsLog : smsLog[k].kind # "default"

\* ------------------------------------------------------------- claims C31-C39
\* how many frames of the sequence q have type t
CountType(q, t) == Cardinality({k \in DOMAIN q : q[k].type = t})

\* C32: on the model connection, session.update is the first frame the
\* session sends and it is sent once, so that it precedes every
\* response.create and every input_audio_buffer.append.
C32_SessionUpdateFirst ==
  toModel # << >> =>
    /\ toModel[1] = SessionUpdate
    /\ CountType(toModel, "session.update") = 1

\* C33: in part_000, greeted and sessionReady never go back from true to
\* false, and the number of greeting instructions sent is 1 when greeted is
\* true and 0 when it is false.
C33_GreetedLatch ==
  [][ /\ greeted => greeted'
      /\ sessionReady => sessionReady'
      /\ GreetCount' = IF greeted' THEN 1 ELSE 0 ]_vars

\* the session has greeted, and a second start event, media and a stop
\* have followed
C33_Witness ==
  /\ variant = "p000" /\ greeted /\ sessionReady /\ GreetCount = 1
  /\ nStart = 2 /\ nStop = 1 /\ mediaIn # << >>

\* C34: once streamSid is not empty it keeps its value through every later
\* event, further start events included, and so greeted implies that
\* streamSid is not empty.
C34_StreamSidStable ==
  [][ /\ streamSid # "" => streamSid' = streamSid
      /\ greeted' => streamSid' # "" ]_vars

\* C35: in part_000, once a stop event has been received, no step other
\* than a further start event sends a greeting instruction: not the ack and
\* not the fallback timer that come while the stop handler awaits.
C35_NoGreetingAfterStop ==
  [][(nStop > 0 /\ nStart' = nStart) => GreetCount' = GreetCount]_vars

\* C36: in part_000, send is never called on the model connection while it
\* is not open, and nothing is added to what was sent on it except by a
\* handler that runs while it is open.
C36_NoSendUnlessOpen ==
  [][ /\ ~oaMiss'
      /\ toModel' # toModel =>
            (oaState = "OPEN" \/ (oaState = "CONNECTING" /\ oaState' = "OPEN")) ]_vars

\* the model connection closed, and after it the timer fired, a start event
\* came and a media frame came: the session is ready with a streamSid, has
\* not greeted and has forwarded no audio
C36_Witness ==
  /\ variant = "p000" /\ oaState = "CLOSED" /\ timerFired /\ sessionReady
  /\ streamSid # "" /\ ~greeted /\ mediaIn # << >>
  /\ toModel = << SessionUpdate >>

C39_FallbackCarriesSnapshot ==
  [][ \A i \in DOMAIN stops :
        (variant \in {"p000", "s1"} /\ stops[i].pc \in {"extract", "sms"}
           /\ (stops[i].snap # << >> \/ ExtractsEmpty(variant))
           /\ stops'[i].pc = "fallback")
          => Last(smsLog').transcript = stops[i].snap ]_vars

\* C38: for every hour from 0 to 23 the night flag is true exactly when
\* the day part is "noche", and the day part is "mañana" from 8 to 13,
\* "tarde" from 14 to 21 and "noche" from 22 to 23 and from 0 to 7.
C38_NightIsNoche ==
  fx.pc = "resolved" =>
    /\ fx.night <=> fx.part = "noche"
    /\ fx.part = "mañana" <=> fx.hour \in 8..13
    /\ fx.part = "tarde" <=> fx.hour \in 14..21
    /\ fx.part = "noche" <=> fx.hour \in (22..23) \cup (0..7)

\* the flag and the label were computed for ten in the evening
C38_Witness ==
  fx.pc = "resolved" /\ fx.hour = 22 /\ fx.night /\ fx.part = "noche"

\* C31: a process with a required configuration value missing accepts no
\* call, so no stop handler ever finds ALERT_TO_NUMBER unset.
C31_MissingValueStopsStartup == \A i \in DOMAIN stops : stops[i].alertTo

=============================================================================
